---- MODULE Spec2Model ----
(***************************************************************************)
(* nastie: a dashboard for the jails and plugins of a FreeNAS/TrueNAS      *)
(* host.  A poller thread fetches /jail and /plugin every 30 seconds,      *)
(* merges them into a HashMap<String, Jail> (fn list) and stores the map   *)
(* in an Arc<RwLock<..>>; the rocket handler of GET / reads the map and    *)
(* renders it.  Model of src/src/main.rs.                                  *)
(*                                                                         *)
(* Strings are sequences of one-character strings, so that the string      *)
(* functions the merge uses (to_string, trim_end_matches, replace,         *)
(* format!) are computed as the code computes them.  Option<String> is a   *)
(* sequence of length at most one: None is << >>, Some(s) is << s >>.      *)
(* A JSON value (json::JsonValue) is a record tagged by its kind.          *)
(***************************************************************************)
EXTENDS Naturals, Sequences, FiniteSets, TLC

\* ------------------------------------------------------------------------
\* Bounds of the model.

\* Longest entity list of a /jail response in MergeSpec.
MaxJails == 2

\* Longest plugin list of a /plugin response in MergeSpec.
MaxPlugins == 2

\* Number of request-handling threads of the HTTP server in Spec.
NumHandlers == 2

\* ------------------------------------------------------------------------
\* The state of the program.

Handlers == 1..NumHandlers

VARIABLES
  arc_jails,        \* the map inside the RwLock (arc_jails, arc2_jails)
  writer,           \* TRUE while the poller holds the write guard
  readers,          \* the handlers holding a read guard
  poisoned,         \* the RwLock's poison flag
  pc,               \* where the poller thread is
  jails,            \* list's local map
  response_jail,    \* the /jail response of the current cycle
  response_plugin,  \* the /plugin response of the current cycle
  hpc,              \* where each handler is
  view,             \* what each handler has read of the map so far
  results,          \* history: the maps list has returned
  static_dir,       \* the files of static/ embedded in the binary (Static)
  reply             \* the answer of each handler to GET /static/<path>

\* ------------------------------------------------------------------------
\* String literals of the program.

\* "null": what Display writes for JsonValue::Null
S_null ==
  <<"n","u","l","l">>
\* ".git"
S_dot_git ==
  <<".","g","i","t">>
\* "github.com"
S_github ==
  <<"g","i","t","h","u","b",".","c","o","m">>
\* "raw.githubusercontent.com"
S_raw_github ==
  <<"r","a","w",".","g","i","t","h","u","b","u","s","e","r","c","o","n","t","e","n","t",".","c","o","m">>
\* "/master/icons/": the text of the format string before {}
S_icons_prefix ==
  <<"/","m","a","s","t","e","r","/","i","c","o","n","s","/">>
\* ".png": the text of the format string after {}
S_png ==
  <<".","p","n","g">>
\* "plexmediaserver"
S_plexmediaserver ==
  <<"p","l","e","x","m","e","d","i","a","s","e","r","v","e","r">>
\* "plex"
S_plex ==
  <<"p","l","e","x">>
\* "/static/icons/beastie.png"
ICON_FREEBSD ==
  <<"/","s","t","a","t","i","c","/","i","c","o","n","s","/","b","e","a","s","t","i","e",".","p","n","g">>

\* ------------------------------------------------------------------------
\* Strings the management API answers with in the model.

\* "10.0.0.5"
S_addr5 ==
  <<"1","0",".","0",".","0",".","5">>
\* "10.0.0.6"
S_addr6 ==
  <<"1","0",".","0",".","0",".","6">>
\* "http://10.0.0.5:32400"
S_portal_a ==
  <<"h","t","t","p",":","/","/","1","0",".","0",".","0",".","5",":","3","2","4","0","0">>
\* "http://10.0.0.5:8080"
S_portal_b ==
  <<"h","t","t","p",":","/","/","1","0",".","0",".","0",".","5",":","8","0","8","0">>
\* "https://github.com/org/plex.git"
S_repo ==
  <<"h","t","t","p","s",":","/","/","g","i","t","h","u","b",".","c","o","m","/","o","r","g","/","p","l","e","x",".","g","i","t">>
\* "https://raw.githubusercontent.com/org/plex/master/icons/plex.png"
S_plex_icon ==
  <<"h","t","t","p","s",":","/","/","r","a","w",".","g","i","t","h","u","b","u","s","e","r","c","o","n","t","e","n","t",".","c","o","m","/","o","r","g","/","p","l","e","x","/","m","a","s","t","e","r","/","i","c","o","n","s","/","p","l","e","x",".","p","n","g">>

\* ------------------------------------------------------------------------
\* str functions.

StartsWith(s, pat) ==
  /\ Len(pat) <= Len(s)
  /\ SubSeq(s, 1, Len(pat)) = pat

EndsWith(s, pat) ==
  /\ Len(pat) <= Len(s)
  /\ SubSeq(s, Len(s) - Len(pat) + 1, Len(s)) = pat

\* str::trim_end_matches: the suffix is removed as often as it matches.
RECURSIVE trim_end_matches(_, _)
trim_end_matches(s, pat) ==
  IF Len(pat) > 0 /\ EndsWith(s, pat)
    THEN trim_end_matches(SubSeq(s, 1, Len(s) - Len(pat)), pat)
    ELSE s

\* str::replace: every non-overlapping match, from the left.
RECURSIVE replace(_, _, _)
replace(s, from, to) ==
  IF s = << >> THEN << >>
  ELSE IF StartsWith(s, from)
    THEN to \o replace(SubSeq(s, Len(from) + 1, Len(s)), from, to)
    ELSE <<Head(s)>> \o replace(Tail(s), from, to)

\* ------------------------------------------------------------------------
\* Option<String>.

None == << >>

Some(s) == <<s>>

\* ------------------------------------------------------------------------
\* json::JsonValue.

JNull == [kind |-> "null"]

JString(s) == [kind |-> "string", str |-> s]

JArray(a) == [kind |-> "array", arr |-> a]

JObject(o) == [kind |-> "object", obj |-> o]

\* JsonValue::members: the elements of an array, nothing for any other value.
members(v) == IF v.kind = "array" THEN v.arr ELSE << >>

\* Index<&str> for JsonValue: the member of an object, Null when the key is
\* missing or the value is no object.
Index(v, key) ==
  IF v.kind = "object" /\ key \in DOMAIN v.obj THEN v.obj[key] ELSE JNull

\* JsonValue::dump of the values that occur as members of the API's objects:
\* null, strings and arrays of them.
RECURSIVE dump(_)
RECURSIVE dump_elements(_)
dump_elements(a) ==
  IF a = << >> THEN << >>
  ELSE IF Len(a) = 1 THEN dump(a[1])
  ELSE dump(a[1]) \o <<",">> \o dump_elements(Tail(a))

dump(v) ==
  CASE v.kind = "null" -> S_null
    [] v.kind = "string" -> <<"\"">> \o v.str \o <<"\"">>
    [] v.kind = "array" -> <<"[">> \o dump_elements(v.arr) \o <<"]">>

\* Display for JsonValue (to_string): a string is written raw, Null as
\* "null", an array as its dump.
to_string(v) ==
  CASE v.kind = "string" -> v.str
    [] v.kind = "null" -> S_null
    [] OTHER -> dump(v)

\* ------------------------------------------------------------------------
\* fn list: the merge of the two responses.

\* struct Jail
Jail(ip, admin, icon) == [jail_ip |-> ip, admin_url |-> admin, icon_url |-> icon]

\* HashMap::new()
EmptyMap == << >>

\* Mutant of new_jails: list goes on with the map of the previous cycle.
kept_jails == arc_jails

\* Line 49: let mut jails = HashMap::new(): every call of list starts from an
\* empty map.
new_jails == EmptyMap

\* Mutant of insert: the value of an existing key is kept.
insert_keeps_old(map, k, v) == map @@ (k :> v)

\* HashMap::insert: the value of an existing key is replaced.
insert(map, k, v) == (k :> v) @@ map

\* Lines 57-66: one insert per member of the /jail response, in order.
RECURSIVE jail_loop(_, _)
jail_loop(map, objs) ==
  IF objs = << >> THEN map
  ELSE jail_loop(
         insert(map,
                to_string(Index(Head(objs), "id")),
                Jail(to_string(Index(Head(objs), "ip4_addr")), None, None)),
         Tail(objs))

\* Mutant of icon_of: the icon path is built from the name as it is.
icon_of_plain_name(plugin_obj, name) ==
  replace(trim_end_matches(to_string(Index(plugin_obj, "plugin_repository")),
                           S_dot_git),
          S_github, S_raw_github)
    \o S_icons_prefix \o name \o S_png

\* Lines 82-91: the icon URL built from the plugin's repository and name.
icon_of(plugin_obj, name) ==
  replace(trim_end_matches(to_string(Index(plugin_obj, "plugin_repository")),
                           S_dot_git),
          S_github, S_raw_github)
    \o S_icons_prefix \o replace(name, S_plexmediaserver, S_plex) \o S_png

\* A panic of the thread running the code (a failed unwrap, an index out of
\* bounds), as the result of a step.
Panic == [panic |-> TRUE]

Ok(v) == [panic |-> FALSE, val |-> v]

\* Mutant of plugin_step: the entry is created when the key is missing
\* (or_insert before the update).
plugin_step_or_insert(map, plugin_obj) ==
  LET name == to_string(Index(plugin_obj, "name"))
      portals == Index(plugin_obj, "admin_portals")
  IN  IF portals.kind = "array"
        THEN IF portals.arr = << >>
               THEN Panic
               ELSE Ok(insert(map, name,
                         Jail(IF name \in DOMAIN map THEN map[name].jail_ip
                                                       ELSE << >>,
                              Some(to_string(portals.arr[1])),
                              Some(icon_of(plugin_obj, name)))))
        ELSE Ok(map)

\* Mutant of plugin_step: the admin URL is set and the icon URL is not.
plugin_step_no_icon(map, plugin_obj) ==
  LET name == to_string(Index(plugin_obj, "name"))
      portals == Index(plugin_obj, "admin_portals")
  IN  IF portals.kind = "array" /\ name \in DOMAIN map
        THEN IF portals.arr = << >>
               THEN Panic
               ELSE Ok([map EXCEPT ![name] =
                          Jail(@.jail_ip, Some(to_string(portals.arr[1])),
                               @.icon_url)])
        ELSE Ok(map)

\* Mutant of plugin_step: the last admin-portal URL is taken, not the first.
plugin_step_last_url(map, plugin_obj) ==
  LET name == to_string(Index(plugin_obj, "name"))
      portals == Index(plugin_obj, "admin_portals")
  IN  IF portals.kind = "array" /\ name \in DOMAIN map
        THEN IF portals.arr = << >>
               THEN Panic
               ELSE Ok([map EXCEPT ![name] =
                          Jail(@.jail_ip,
                               Some(to_string(portals.arr[Len(portals.arr)])),
                               Some(icon_of(plugin_obj, name)))])
        ELSE Ok(map)

\* Lines 76-95: the body of the plugin loop for one plugin.  and_modify runs
\* its closure only when the key is in the map; the closure indexes
\* admin_urls[0], a Vec, which panics when the Vec is empty.
plugin_step(map, plugin_obj) ==
  LET name == to_string(Index(plugin_obj, "name"))
      portals == Index(plugin_obj, "admin_portals")
  IN  IF portals.kind = "array" /\ name \in DOMAIN map
        THEN IF portals.arr = << >>
               THEN Panic
               ELSE Ok([map EXCEPT ![name] =
                          Jail(@.jail_ip,
                               Some(to_string(portals.arr[1])),
                               Some(icon_of(plugin_obj, name)))])
        ELSE Ok(map)

\* Lines 75-96: the plugin loop; a panic ends it.
RECURSIVE plugin_loop(_, _)
plugin_loop(map, objs) ==
  IF objs = << >> THEN Ok(map)
  ELSE LET r == plugin_step(map, Head(objs))
       IN  IF r.panic THEN Panic ELSE plugin_loop(r.val, Tail(objs))

\* Mutant of default_icons: the loop is missing.
default_icons_missing(map) == map

\* Lines 98-102: the default icon for every record without one.
default_icons(map) ==
  [k \in DOMAIN map |->
     IF map[k].icon_url = None
       THEN Jail(map[k].jail_ip, map[k].admin_url, Some(ICON_FREEBSD))
       ELSE map[k]]

\* ------------------------------------------------------------------------
\* Responses of the management API.

\* client.get(..).send() failed: the unwrap of lines 53 and 71 panics.
SendErr == [send |-> "err"]

\* A response whose body cannot be read or is rejected by json::parse: an
\* unwrap of lines 55 and 73 panics.  The status is not looked at.
BadJson(status) == [send |-> "ok", status |-> status, valid |-> FALSE]

\* A response whose body parses to the value v.
Json(status, v) == [send |-> "ok", status |-> status, valid |-> TRUE, value |-> v]

\* One object of the /jail response.
JailObj(id, ip) == JObject([id |-> JString(id), ip4_addr |-> JString(ip)])

\* One object of the /plugin response; admin_portals may be missing.
PluginObj(name, portals, repo) ==
  JObject([name |-> JString(name), admin_portals |-> portals,
           plugin_repository |-> JString(repo)])

PluginObjNoPortals(name, repo) ==
  JObject([name |-> JString(name), plugin_repository |-> JString(repo)])

\* Lines 49-66: the map is created, /jail is fetched and parsed, the records
\* are seeded.
list_jails(response) ==
  IF response.send = "err" THEN Panic
  ELSE IF ~response.valid THEN Panic
  ELSE Ok(jail_loop(new_jails, members(response.value)))

\* Lines 68-104: /plugin is fetched and parsed, the plugin loop and the
\* default icon loop run, the map is returned.
list_plugins(map, response) ==
  IF response.send = "err" THEN Panic
  ELSE IF ~response.valid THEN Panic
  ELSE LET r == plugin_loop(map, members(response.value))
       IN  IF r.panic THEN Panic ELSE Ok(default_icons(r.val))

\* fn list, as a function of the two responses the client gets.
list(response_j, response_p) ==
  LET a == list_jails(response_j)
  IN  IF a.panic THEN Panic ELSE list_plugins(a.val, response_p)

\* ------------------------------------------------------------------------
\* The inputs of the model.

\* All sequences over S of length at most n.
SeqsUpTo(S, n) == UNION {[1..k -> S] : k \in 0..n}

MergeJailObjs ==
  {JailObj(id, ip) : id \in {S_plex, S_plexmediaserver}, ip \in {S_addr5, S_addr6}}

MergePortals ==
  {JArray(<< >>), JArray(<<JString(S_portal_a)>>),
   JArray(<<JString(S_portal_b), JString(S_portal_a)>>)}

MergePluginObjs ==
  {PluginObj(n, p, S_repo) : n \in {S_plex, S_plexmediaserver}, p \in MergePortals}
    \cup {PluginObjNoPortals(n, S_repo) : n \in {S_plex, S_plexmediaserver}}

\* The /jail responses of MergeSpec: every entity list within the bound.
MergeJailResponses ==
  {Json(200, JArray(e)) : e \in SeqsUpTo(MergeJailObjs, MaxJails)}

\* The /plugin responses of MergeSpec: every plugin list within the bound.
MergePluginResponses ==
  {Json(200, JArray(p)) : p \in SeqsUpTo(MergePluginObjs, MaxPlugins)}

\* The /jail responses of Spec: a failed request, a body that is no JSON, an
\* error answer, and two entity lists.
JailResponses ==
  {SendErr, BadJson(200),
   Json(500, JObject([message |-> JString(S_null)])),
   Json(200, JArray(<<JailObj(S_plex, S_addr5)>>)),
   Json(200, JArray(<<JailObj(S_plex, S_addr5),
                      JailObj(S_plexmediaserver, S_addr6)>>))}

\* The /plugin responses of Spec.
PluginResponses ==
  {SendErr, BadJson(200),
   Json(200, JArray(<<PluginObj(S_plexmediaserver,
                                JArray(<<JString(S_portal_a)>>), S_repo)>>)),
   Json(200, JArray(<<PluginObj(S_plex, JArray(<< >>), S_repo)>>)),
   Json(200, JArray(<<PluginObj(S_plex,
                                JArray(<<JString(S_portal_b),
                                         JString(S_portal_a)>>), S_repo)>>))}

\* ------------------------------------------------------------------------
\* fn static_file (lines 117-137).

\* Paths of GET /static/<path> in the model.
\* "icons/beastie.png"
P_beastie ==
  <<"i","c","o","n","s","/","b","e","a","s","t","i","e",".","p","n","g">>
\* "style.css"
P_style ==
  <<"s","t","y","l","e",".","c","s","s">>
\* "icons/README": no extension
P_readme ==
  <<"i","c","o","n","s","/","R","E","A","D","M","E">>
\* "data.xyz": an extension without a content type
P_xyz ==
  <<"d","a","t","a",".","x","y","z">>
\* "v1.2/notes": a dot in the directory only
P_notes ==
  <<"v","1",".","2","/","n","o","t","e","s">>
\* "file.": an empty extension
P_dot ==
  <<"f","i","l","e",".">>

\* The position of the last c in s, 0 when there is none.
last_index(s, c) ==
  IF \E i \in DOMAIN s : s[i] = c
    THEN CHOOSE i \in DOMAIN s : s[i] = c /\ \A j \in DOMAIN s : s[j] = c => j <= i
    ELSE 0

\* Path::file_name: what follows the last "/".
file_name(path) == SubSeq(path, last_index(path, "/") + 1, Len(path))

\* Path::extension: what follows the last "." of the file name; None when the
\* file name has no "." or only a leading one.
extension(path) ==
  LET name == file_name(path)
      dot == last_index(name, ".")
  IN  IF dot <= 1 THEN None ELSE Some(SubSeq(name, dot + 1, Len(name)))

\* ContentType::from_extension, for the extensions of the model.
from_extension(ext) ==
  CASE ext = <<"p","n","g">> -> Some("image/png")
    [] ext = <<"c","s","s">> -> Some("text/css; charset=utf-8")
    [] ext = <<"j","s">> -> Some("application/javascript")
    [] OTHER -> None

\* A response with no body and the given status.
Status(code) == [status |-> code]

\* Response::build().header(content_type).sized_body(d).ok()
Sized(content_type, d) == [status |-> 200, content_type |-> content_type, body |-> d]

\* Static::get: the bytes of the embedded file, which the model names by the
\* file they are of.
bytes_of(path) == [file |-> path]

\* Mutant of static_file: the extension is looked at before the asset.
static_file_extension_first(path, dir) ==
  IF extension(path) = None THEN Status(400)
  ELSE IF from_extension(extension(path)[1]) = None THEN Status(400)
  ELSE IF path \notin dir THEN Status(404)
  ELSE Sized(from_extension(extension(path)[1])[1], bytes_of(path))

\* Lines 119-136: 404 without the asset, 400 without an extension or a content
\* type for it, the asset otherwise.
static_file(path, dir) ==
  IF path \notin dir THEN Status(404)
  ELSE IF extension(path) = None THEN Status(400)
  ELSE IF from_extension(extension(path)[1]) = None THEN Status(400)
  ELSE Sized(from_extension(extension(path)[1])[1], bytes_of(path))

\* The paths requested in StaticSpec.
StaticPaths == {P_beastie, P_style, P_readme, P_xyz, P_notes, P_dot}

\* The files embedded in Spec, and the path requested there (StaticSpec asks
\* for every path of StaticPaths against every set of embedded files).
EmbeddedFiles == {P_beastie, P_readme}

RequestedPaths == {P_beastie}

\* No answer yet.
NoReply == [path |-> << >>]

\* ------------------------------------------------------------------------
\* State.

vars ==
  <<arc_jails, writer, readers, poisoned, pc, jails, response_jail,
    response_plugin, hpc, view, results, static_dir, reply>>

poller_vars == <<pc, jails, response_jail, response_plugin, results>>

handler_vars == <<hpc, view, static_dir, reply>>

lock_vars == <<writer, readers, poisoned>>

\* No response yet.
NoResponse == [send |-> "none"]

\* Lines 205-207 and the spawn of line 209: an empty map in a fresh lock, the
\* poller at the top of its loop, no request being handled.
Init ==
  /\ arc_jails = EmptyMap
  /\ writer = FALSE
  /\ readers = {}
  /\ poisoned = FALSE
  /\ pc = "loop"
  /\ jails = EmptyMap
  /\ response_jail = NoResponse
  /\ response_plugin = NoResponse
  /\ hpc = [h \in Handlers |-> "idle"]
  /\ view = [h \in Handlers |-> EmptyMap]
  /\ results = {}
  /\ static_dir = EmbeddedFiles
  /\ reply = [h \in Handlers |-> NoReply]

\* ------------------------------------------------------------------------
\* std::sync::RwLock.

\* Mutant of can_write: the write guard is handed out while readers hold
\* theirs.
can_write_beside_readers == ~writer

\* write() returns when no guard is held.
can_write == ~writer /\ readers = {}

\* read() returns when no write guard is held.  std leaves the priority
\* between readers and a waiting writer to the platform; this is the lock that
\* lets readers in past a waiting writer (the pthread default), the one with
\* the most behaviours.
can_read == ~writer

\* ------------------------------------------------------------------------
\* The poller thread (lines 209-226).

\* A panic of the poller while it holds the write guard: the unwinding drops
\* list's map and the guard, which poisons the lock, and the thread ends.
poller_panics ==
  /\ pc' = "dead"
  /\ writer' = FALSE
  /\ poisoned' = TRUE
  /\ jails' = EmptyMap
  /\ UNCHANGED <<readers, arc_jails, results>>

\* Line 219: arc2_jails.write().unwrap(); then list is entered and sends the
\* /jail request (lines 49-52).
write_lock ==
  /\ pc = "loop"
  /\ can_write
  /\ ~poisoned
  /\ writer' = TRUE
  /\ pc' = "send_jail"
  /\ jails' = EmptyMap
  /\ response_jail' = NoResponse
  /\ response_plugin' = NoResponse
  /\ UNCHANGED <<arc_jails, readers, poisoned, results, handler_vars>>

\* Lines 53-70: the /jail response arrives and is parsed, the records are
\* seeded and the /plugin request is sent.
jail_response ==
  /\ pc = "send_jail"
  /\ \E r \in JailResponses :
       /\ ~list_jails(r).panic
       /\ response_jail' = r
       /\ jails' = list_jails(r).val
  /\ pc' = "send_plugin"
  /\ UNCHANGED <<arc_jails, lock_vars, response_plugin, results, handler_vars>>

\* Lines 53 and 55: the /jail request or the parse of its body fails.
jail_response_fails ==
  /\ pc = "send_jail"
  /\ \E r \in JailResponses :
       /\ list_jails(r).panic
       /\ response_jail' = r
  /\ poller_panics
  /\ UNCHANGED <<response_plugin, handler_vars>>

\* Lines 71-104: the /plugin response arrives and is parsed, the plugin loop
\* and the default icon loop run, and list returns the map.
plugin_response ==
  /\ pc = "send_plugin"
  /\ \E r \in PluginResponses :
       /\ ~list_plugins(jails, r).panic
       /\ response_plugin' = r
       /\ jails' = list_plugins(jails, r).val
       /\ results' = results \cup {list_plugins(jails, r).val}
  /\ pc' = "assign"
  /\ UNCHANGED <<arc_jails, lock_vars, response_jail, handler_vars>>

\* Lines 71, 73 and 81: the /plugin request, the parse of its body or the
\* index admin_urls[0] fails.
plugin_response_fails ==
  /\ pc = "send_plugin"
  /\ \E r \in PluginResponses :
       /\ list_plugins(jails, r).panic
       /\ response_plugin' = r
  /\ poller_panics
  /\ UNCHANGED <<response_jail, handler_vars>>

\* Mutant of assign: the returned entries are written into the map that is
\* in the lock.
assign_into_old ==
  /\ pc = "assign"
  /\ arc_jails' = jails @@ arc_jails
  /\ pc' = "drop"
  /\ UNCHANGED <<lock_vars, jails, response_jail, response_plugin, results,
                 handler_vars>>

\* Line 220: *jails = list(..): the returned map replaces the map in the lock.
assign ==
  /\ pc = "assign"
  /\ arc_jails' = jails
  /\ pc' = "drop"
  /\ UNCHANGED <<lock_vars, jails, response_jail, response_plugin, results,
                 handler_vars>>

\* Mutant of drop: the guard is not dropped before the sleep.
drop_missing ==
  /\ pc = "drop"
  /\ pc' = "sleep"
  /\ UNCHANGED <<arc_jails, lock_vars, jails, response_jail, response_plugin,
                 results, handler_vars>>

\* Line 222: std::mem::drop(jails) releases the write guard.
drop ==
  /\ pc = "drop"
  /\ writer' = FALSE
  /\ pc' = "sleep"
  /\ UNCHANGED <<arc_jails, readers, poisoned, jails, response_jail,
                 response_plugin, results, handler_vars>>

\* Line 224: thread::sleep returns after 30 seconds and the loop starts over.
sleep ==
  /\ pc = "sleep"
  /\ pc' = "loop"
  /\ UNCHANGED <<arc_jails, lock_vars, jails, response_jail, response_plugin,
                 results, handler_vars>>

\* ------------------------------------------------------------------------
\* The handler of GET / (lines 107-115).

\* rocket calls index for a request: the handler is at line 112.
request(h) ==
  /\ hpc[h] = "idle"
  /\ hpc' = [hpc EXCEPT ![h] = "read"]
  /\ view' = [view EXCEPT ![h] = EmptyMap]
  /\ UNCHANGED <<arc_jails, lock_vars, poller_vars, static_dir, reply>>

\* Line 112: arc_jails.read().unwrap() on a lock that is not poisoned.
read_lock(h) ==
  /\ hpc[h] = "read"
  /\ can_read
  /\ ~poisoned
  /\ readers' = readers \cup {h}
  /\ hpc' = [hpc EXCEPT ![h] = "render"]
  /\ UNCHANGED <<arc_jails, writer, poisoned, view, poller_vars, static_dir, reply>>

\* Line 112: read() on a poisoned lock is an Err, and the unwrap panics: the
\* request fails without having read the map.
read_lock_poisoned(h) ==
  /\ hpc[h] = "read"
  /\ can_read
  /\ poisoned
  /\ hpc' = [hpc EXCEPT ![h] = "panicked"]
  /\ UNCHANGED <<arc_jails, lock_vars, view, poller_vars, static_dir, reply>>

\* Line 114: json!(&*jails) serializes the map, one entry after the other.
render_entry(h) ==
  /\ hpc[h] = "render"
  /\ \E k \in DOMAIN arc_jails \ DOMAIN view[h] :
       view' = [view EXCEPT ![h] = insert(@, k, arc_jails[k])]
  /\ UNCHANGED <<arc_jails, lock_vars, hpc, poller_vars, static_dir, reply>>

\* Lines 114-115: every entry is serialized, the page is rendered and
\* returned; the read guard is dropped.
render_done(h) ==
  /\ hpc[h] = "render"
  /\ DOMAIN arc_jails \subseteq DOMAIN view[h]
  /\ readers' = readers \ {h}
  /\ hpc' = [hpc EXCEPT ![h] = "respond"]
  /\ UNCHANGED <<arc_jails, writer, poisoned, view, poller_vars, static_dir, reply>>

\* Mutant of render_fails: the panic under the read guard poisons the lock.
render_fails_poisons(h) ==
  /\ hpc[h] = "render"
  /\ readers' = readers \ {h}
  /\ poisoned' = TRUE
  /\ hpc' = [hpc EXCEPT ![h] = "render_panicked"]
  /\ view' = [view EXCEPT ![h] = EmptyMap]
  /\ UNCHANGED <<arc_jails, writer, poller_vars, static_dir, reply>>

\* Line 114: handlebars.render(..) is an Err and the unwrap panics.  The
\* unwinding drops what was serialized and the read guard; a read guard never
\* poisons the lock.
render_fails(h) ==
  /\ hpc[h] = "render"
  /\ readers' = readers \ {h}
  /\ hpc' = [hpc EXCEPT ![h] = "render_panicked"]
  /\ view' = [view EXCEPT ![h] = EmptyMap]
  /\ UNCHANGED <<arc_jails, writer, poisoned, poller_vars, static_dir, reply>>

\* The response is sent (or the panicked request is answered with an error)
\* and the thread takes the next request.
respond(h) ==
  /\ hpc[h] \in {"respond", "panicked", "render_panicked", "static_done"}
  /\ hpc' = [hpc EXCEPT ![h] = "idle"]
  /\ view' = [view EXCEPT ![h] = EmptyMap]
  /\ reply' = [reply EXCEPT ![h] = NoReply]
  /\ UNCHANGED <<arc_jails, lock_vars, poller_vars, static_dir>>

\* Lines 117-137: rocket calls static_file for GET /static/<path>, and it
\* returns its answer.
static_get(h, paths) ==
  /\ hpc[h] = "idle"
  /\ \E path \in paths :
       reply' = [reply EXCEPT ![h] =
                   [path |-> path, response |-> static_file(path, static_dir)]]
  /\ hpc' = [hpc EXCEPT ![h] = "static_done"]
  /\ UNCHANGED <<arc_jails, lock_vars, poller_vars, view, static_dir>>

\* ------------------------------------------------------------------------
\* The program.

Next ==
  \/ write_lock
  \/ jail_response
  \/ jail_response_fails
  \/ plugin_response
  \/ plugin_response_fails
  \/ assign
  \/ drop
  \/ sleep
  \/ \E h \in Handlers : request(h)
  \/ \E h \in Handlers : read_lock(h)
  \/ \E h \in Handlers : read_lock_poisoned(h)
  \/ \E h \in Handlers : render_entry(h)
  \/ \E h \in Handlers : render_done(h)
  \/ \E h \in Handlers : render_fails(h)
  \/ \E h \in Handlers : respond(h)
  \/ \E h \in Handlers : static_get(h, RequestedPaths)

Spec == Init /\ [][Next]_vars

\* The threads are scheduled: a handler that is handling a request takes its
\* next step when it can, and the poller takes a step that is possible again
\* and again (a write() that finds the lock free often enough succeeds).
\* Whether requests arrive, and whether a render fails, is left open.
poller_step ==
  \/ write_lock
  \/ jail_response
  \/ jail_response_fails
  \/ plugin_response
  \/ plugin_response_fails
  \/ assign
  \/ drop
  \/ sleep

handler_step(h) ==
  \/ read_lock(h)
  \/ read_lock_poisoned(h)
  \/ render_entry(h)
  \/ render_done(h)
  \/ respond(h)

FairSpec ==
  /\ Spec
  /\ SF_vars(poller_step)
  /\ \A h \in Handlers : WF_vars(handler_step(h))

\* ------------------------------------------------------------------------
\* The merge alone: list applied to every pair of responses within the
\* bounds.

MergeInit ==
  /\ arc_jails = EmptyMap
  /\ writer = TRUE
  /\ readers = {}
  /\ poisoned = FALSE
  /\ pc = "list"
  /\ jails = EmptyMap
  /\ response_jail \in MergeJailResponses
  /\ response_plugin \in MergePluginResponses
  /\ hpc = [h \in Handlers |-> "idle"]
  /\ view = [h \in Handlers |-> EmptyMap]
  /\ results = {}
  /\ static_dir = EmbeddedFiles
  /\ reply = [h \in Handlers |-> NoReply]

\* list(&client, &api_url_base) returns a map.
list_returns ==
  /\ pc = "list"
  /\ ~list(response_jail, response_plugin).panic
  /\ jails' = list(response_jail, response_plugin).val
  /\ pc' = "returned"
  /\ UNCHANGED <<arc_jails, lock_vars, response_jail, response_plugin, results,
                 handler_vars>>

\* list(&client, &api_url_base) panics.
list_panics ==
  /\ pc = "list"
  /\ list(response_jail, response_plugin).panic
  /\ pc' = "panicked"
  /\ UNCHANGED <<arc_jails, lock_vars, jails, response_jail, response_plugin,
                 results, handler_vars>>

MergeNext == list_returns \/ list_panics

MergeSpec == MergeInit /\ [][MergeNext]_vars

\* ------------------------------------------------------------------------
\* static_file alone: every set of embedded files and every path of
\* StaticPaths.

StaticInit ==
  /\ arc_jails = EmptyMap
  /\ writer = FALSE
  /\ readers = {}
  /\ poisoned = FALSE
  /\ pc = "loop"
  /\ jails = EmptyMap
  /\ response_jail = NoResponse
  /\ response_plugin = NoResponse
  /\ hpc = [h \in Handlers |-> "idle"]
  /\ view = [h \in Handlers |-> EmptyMap]
  /\ results = {}
  /\ static_dir \in SUBSET StaticPaths
  /\ reply = [h \in Handlers |-> NoReply]

StaticNext ==
  \/ \E h \in Handlers : static_get(h, StaticPaths)
  \/ \E h \in Handlers : hpc[h] = "static_done" /\ respond(h)

StaticSpec == StaticInit /\ [][StaticNext]_vars

\* ------------------------------------------------------------------------
\* What the claims speak of.

\* The list a response carries: the members of its parsed body.
fetched(response) ==
  IF response.send = "ok" /\ response.valid THEN members(response.value) ELSE << >>

\* The entity list and the plugin list of the current cycle (of the call of
\* list in MergeSpec).
Entities == fetched(response_jail)

Plugins == fetched(response_plugin)

\* The ids of an entity list, the name of a plugin, its admin-portal list.
EntityIds(E) == {Index(E[i], "id").str : i \in DOMAIN E}

plugin_name(p) == Index(p, "name").str

plugin_portals(p) == Index(p, "admin_portals")

\* The plugin has at least one admin-portal URL.
has_urls(p) == plugin_portals(p).kind = "array" /\ plugin_portals(p).arr # << >>

first_url(p) == plugin_portals(p).arr[1].str

\* The orderings of a list.
Orderings(P) ==
  {[i \in DOMAIN P |-> P[f[i]]] :
     f \in {g \in [DOMAIN P -> DOMAIN P] : \A i, j \in DOMAIN P : g[i] = g[j] => i = j}}

\* The list with the plugins of the given /plugin list.
with_plugins(P) == list(response_jail, Json(200, JArray(P)))

\* Everything a handler has read so far is from the map m.
read_from(h, m) ==
  \A k \in DOMAIN view[h] : k \in DOMAIN m /\ view[h][k] = m[k]

\* ------------------------------------------------------------------------
\* Claims.

\* C1: whatever the interleaving of the poller and the handlers of GET /, what
\* a handler has read while it renders comes from one single map, the
\* initial empty map or the map one call of list returned, and the map it
\* has read when it is done is that map in full: never partly the old and
\* partly the new map, never a map list has not returned yet.
C1_ReadIsOneCompleteSnapshot ==
  \A h \in Handlers :
    /\ hpc[h] = "render" => \E m \in {EmptyMap} \cup results : read_from(h, m)
    /\ hpc[h] = "respond" => view[h] \in {EmptyMap} \cup results

\* C1 happens: a handler has read a published map in full while the poller is
\* in the middle of a later cycle.
C1_Witness ==
  \E h \in Handlers :
    /\ hpc[h] = "respond"
    /\ view[h] # EmptyMap
    /\ pc = "send_plugin"
    /\ Cardinality(results) >= 2

\* C2 as claimed: once a cycle has published a map, a failed later cycle
\* leaves every handler able to read it: no request fails on reading.
C2_ReadersKeepSnapshotAfterFailedCycle ==
  (pc = "dead" /\ results # {}) => \A h \in Handlers : hpc[h] # "panicked"

\* C3 as claimed: a handler that wants to read never has to wait for the
\* poller, at any point of the poll cycle.
C3_HandlerNeverWaitsForPoller ==
  \A h \in Handlers : hpc[h] = "read" => can_read

C5_KeysAreEntityIds ==
  /\ pc = "returned" => DOMAIN jails = EntityIds(Entities)
  /\ pc = "panicked" =>
       \E i \in DOMAIN Plugins : plugin_name(Plugins[i]) \in EntityIds(Entities)

\* C5 happens: list has returned for an entity list with one id twice and a
\* plugin, with admin-portal URLs, whose name is no entity id.
C5_Witness ==
  /\ pc = "returned"
  /\ Len(Entities) = 2
  /\ Cardinality(DOMAIN jails) = 1
  /\ \E i \in DOMAIN Plugins :
       /\ has_urls(Plugins[i])
       /\ plugin_name(Plugins[i]) \notin DOMAIN jails

\* C6 as claimed: the record of X has the first URL of every plugin that
\* matches X and has a non-empty admin-portal list, for every ordering of the
\* plugin list.
C6_FirstUrlOfAnyMatchingPlugin ==
  pc = "returned" =>
    \A i \in DOMAIN Plugins :
      (has_urls(Plugins[i]) /\ plugin_name(Plugins[i]) \in DOMAIN jails) =>
        \A Q \in Orderings(Plugins) :
          /\ ~with_plugins(Q).panic
          /\ with_plugins(Q).val[plugin_name(Plugins[i])].admin_url
               = Some(first_url(Plugins[i]))

\* The plugin at i is the last of the list among those with its name and an
\* admin_portals array; it is the only one of them.
last_for_name(P, i) ==
  \A j \in DOMAIN P :
    (j > i /\ plugin_name(P[j]) = plugin_name(P[i]))
      => plugin_portals(P[j]).kind # "array"

only_for_name(P, i) ==
  \A j \in DOMAIN P :
    (j # i /\ plugin_name(P[j]) = plugin_name(P[i]))
      => plugin_portals(P[j]).kind # "array"

\* C6, amended: in the map list returns, the record of X has the first URL
\* of the last plugin in list order that matches X and has an admin-portal
\* list; when that plugin is the only such plugin of its name, this is so
\* for every ordering of the plugin list.
C6_FirstUrlOfLastMatchingPlugin ==
  pc = "returned" =>
    \A i \in DOMAIN Plugins :
      (has_urls(Plugins[i]) /\ plugin_name(Plugins[i]) \in DOMAIN jails) =>
        /\ last_for_name(Plugins, i) =>
             jails[plugin_name(Plugins[i])].admin_url = Some(first_url(Plugins[i]))
        /\ only_for_name(Plugins, i) =>
             \A Q \in Orderings(Plugins) :
               /\ ~with_plugins(Q).panic
               /\ with_plugins(Q).val[plugin_name(Plugins[i])].admin_url
                    = Some(first_url(Plugins[i]))

\* C6 happens: list has returned for two plugins of different names, each
\* matching an entity, the first with two admin-portal URLs.
C6_Witness ==
  /\ pc = "returned"
  /\ Len(Plugins) = 2
  /\ plugin_name(Plugins[1]) # plugin_name(Plugins[2])
  /\ \A i \in DOMAIN Plugins :
       has_urls(Plugins[i]) /\ plugin_name(Plugins[i]) \in DOMAIN jails
  /\ Len(plugin_portals(Plugins[1]).arr) = 2
  /\ jails[plugin_name(Plugins[1])].admin_url = Some(first_url(Plugins[1]))

\* C7: every record of the map in the lock has an icon URL.
C7_IconAlwaysPresent ==
  \A k \in DOMAIN arc_jails : arc_jails[k].icon_url # None

\* C7 happens: a published map holds a record with the default icon and a
\* record with the icon of its plugin.
C7_Witness ==
  \E k1, k2 \in DOMAIN arc_jails :
    /\ arc_jails[k1].icon_url = Some(ICON_FREEBSD)
    /\ arc_jails[k2].icon_url = Some(S_plex_icon)

\* The scenario of C8: one plugin "plexmediaserver" with the one admin portal
\* "http://10.0.0.5:32400" and the repository
\* "https://github.com/org/plex.git", and one entity of the given id at
\* "10.0.0.5".
plex_scenario(id) ==
  /\ Entities = <<JailObj(id, S_addr5)>>
  /\ Plugins = <<PluginObj(S_plexmediaserver, JArray(<<JString(S_portal_a)>>),
                           S_repo)>>

\* C8 as claimed: with the entity "plex" the record of "plex" gets the admin
\* URL and the icon of the plugin "plexmediaserver".
C8_PlexAliasMatchesEntity ==
  (pc = "returned" /\ plex_scenario(S_plex)) =>
    jails = (S_plex :> Jail(S_addr5, Some(S_portal_a), Some(S_plex_icon)))

\* C8, amended: the plugin is matched by its name as it is, and the alias is
\* used in the icon path only: with the entity "plexmediaserver" the record
\* of "plexmediaserver" gets the admin URL and the icon ../icons/plex.png;
\* with the entity "plex" the record of "plex" has no admin URL and the
\* default icon.
C8_PlexAliasInIconPathOnly ==
  /\ (pc = "returned" /\ plex_scenario(S_plexmediaserver)) =>
       jails = (S_plexmediaserver :>
                  Jail(S_addr5, Some(S_portal_a), Some(S_plex_icon)))
  /\ (pc = "returned" /\ plex_scenario(S_plex)) =>
       jails = (S_plex :> Jail(S_addr5, None, Some(ICON_FREEBSD)))

\* C8 happens: list has returned in the scenario with the entity
\* "plexmediaserver".
C8_Witness ==
  pc = "returned" /\ plex_scenario(S_plexmediaserver)

\* C9 as claimed: when no plugin has an admin-portal URL (admin_portals is
\* missing or an empty list), list returns, and every record has no admin
\* URL and the default icon, also when plugin names match entity ids.
C9_PluginWithoutUrlsIsIgnored ==
  (pc # "list" /\ \A i \in DOMAIN Plugins : ~has_urls(Plugins[i])) =>
    /\ pc = "returned"
    /\ \A k \in DOMAIN jails :
         jails[k].admin_url = None /\ jails[k].icon_url = Some(ICON_FREEBSD)

\* The record r of the key k is made of the lists E and P alone.
made_of(r, k, E, P) ==
  /\ \E i \in DOMAIN E : Index(E[i], "id").str = k /\ r.jail_ip = Index(E[i], "ip4_addr").str
  /\ \/ r.admin_url = None /\ r.icon_url = Some(ICON_FREEBSD)
     \/ \E i \in DOMAIN P :
          /\ plugin_name(P[i]) = k
          /\ has_urls(P[i])
          /\ r.admin_url = Some(first_url(P[i]))
          /\ r.icon_url = Some(icon_of(P[i], k))

\* C10: from the assignment of a successful cycle until the next cycle
\* starts, the map in the lock has exactly the ids of that cycle's entity
\* list as keys, and every record is made of that cycle's lists alone.
C10_SnapshotIsLatestCycleOnly ==
  pc \in {"drop", "sleep", "loop"} /\ response_plugin # NoResponse =>
    /\ DOMAIN arc_jails = EntityIds(Entities)
    /\ \A k \in DOMAIN arc_jails : made_of(arc_jails[k], k, Entities, Plugins)

\* C10 happens: a cycle has just replaced a map by one that lacks one of its
\* keys.
C10_Witness ==
  /\ pc = "drop"
  /\ \E m \in results : ~(DOMAIN m \subseteq DOMAIN arc_jails)

\* A response the API client may hand on as a list: a 2xx status and a body
\* that is a JSON list of objects.
well_formed(response) ==
  /\ response.send = "ok"
  /\ response.valid
  /\ response.status \in 200..299
  /\ response.value.kind = "array"
  /\ \A i \in DOMAIN response.value.arr : response.value.arr[i].kind = "object"

\* C11 as claimed: a cycle whose /jail or /plugin answer has a non-2xx status
\* or a body that is no list of objects assigns no map.
C11_ErrorAnswerIsNotPublished ==
  pc \in {"drop", "sleep"} =>
    well_formed(response_jail) /\ well_formed(response_plugin)

\* C12: a render failure stays in its request.  The failed handler holds no
\* guard, the lock is poisoned by nothing but the poller's own panic, so the
\* poller at line 219 gets the write guard as soon as no handler is reading,
\* and a handler at line 112 gets the read guard as soon as the poller does
\* not hold the write guard.
C12_RenderFailureIsConfined ==
  /\ readers = {h \in Handlers : hpc[h] = "render"}
  /\ poisoned => pc = "dead"
  /\ (pc = "loop" /\ readers = {}) => (can_write /\ ~poisoned)
  /\ \A h \in Handlers :
       (hpc[h] = "read" /\ ~writer /\ pc # "dead") => (can_read /\ ~poisoned)

\* C12 happens: while the request whose render failed is still unanswered,
\* the poller has taken the write guard and assigned a new map, and another
\* handler has read the lock.
C12_Witness ==
  \E h, g \in Handlers :
    /\ hpc[h] = "render_panicked"
    /\ hpc[g] = "respond"
    /\ pc = "drop"
    /\ writer
    /\ arc_jails # EmptyMap

\* C13 as claimed: when every handler releases its read guard in the end, the
\* poller waiting at line 219 gets the write guard in the end.
C13_WriterEventuallyAcquires ==
  (pc = "loop") ~> writer

\* What static_file is to answer for the paths of the model: the content type
\* of the extension, "none" without an extension or a type for it.
expected_type(path) ==
  CASE path = P_beastie -> "image/png"
    [] path = P_style -> "text/css; charset=utf-8"
    [] OTHER -> "none"

\* C14: GET /static/<path> is answered 404 when no file is embedded at the
\* path, whatever its extension; 400 when the file is there and the path has
\* no extension or one without a content type; and otherwise with the file's
\* bytes and the content type of the extension.
C14_StaticFileAnswers ==
  \A h \in Handlers :
    hpc[h] = "static_done" =>
      LET path == reply[h].path
          r == reply[h].response
      IN  /\ path \notin static_dir => r = Status(404)
          /\ (path \in static_dir /\ expected_type(path) = "none") => r = Status(400)
          /\ (path \in static_dir /\ expected_type(path) # "none") =>
               r = [status |-> 200, content_type |-> expected_type(path),
                    body |-> bytes_of(path)]

\* C14 happens: a path without extension and without a file has been answered
\* 404, and an embedded file without extension 400.
C14_Witness ==
  \E h, g \in Handlers :
    /\ hpc[h] = "static_done" /\ hpc[g] = "static_done"
    /\ reply[h].path = P_readme /\ reply[h].response = Status(404)
    /\ reply[g].path = P_notes /\ reply[g].response = Status(400)

\* C15: the map in the lock changes in one step only, the poller's assignment
\* under the write guard, which makes it the map list returned; no step of a
\* handler of GET / or GET /static/<path> changes it.
C15_OnlyPollerReplacesMap ==
  [][arc_jails' # arc_jails =>
       /\ pc = "assign" /\ pc' = "drop"
       /\ writer /\ readers = {}
       /\ arc_jails' = jails
       /\ hpc' = hpc /\ view' = view /\ reply' = reply]_vars

\* C15 happens: the poller has just replaced a map, while one request of GET /
\* and one of GET /static/<path> have been handled and not yet answered.
C15_Witness ==
  \E h, g \in Handlers :
    /\ pc = "drop"
    /\ \E m \in results : m # arc_jails
    /\ hpc[h] = "respond" /\ view[h] # EmptyMap
    /\ hpc[g] = "static_done"

\* C16: the record of an id is the one of its last occurrence in the entity
\* list.
C16_LastEntityWins ==
  pc = "returned" =>
    \A i \in DOMAIN Entities :
      (\A j \in DOMAIN Entities :
         j > i => Index(Entities[j], "id") # Index(Entities[i], "id"))
        => jails[Index(Entities[i], "id").str].jail_ip
             = Index(Entities[i], "ip4_addr").str

\* C16 happens: list has returned for an entity list with one id twice, at two
\* addresses.
C16_Witness ==
  /\ pc = "returned"
  /\ Len(Entities) = 2
  /\ Index(Entities[1], "id") = Index(Entities[2], "id")
  /\ Index(Entities[1], "ip4_addr") # Index(Entities[2], "ip4_addr")
  /\ Cardinality(DOMAIN jails) = 1

\* C17: in every record of the map list returns, the admin URL is missing
\* exactly when the icon is the default icon; and it is missing for an entity
\* no plugin with an admin-portal list matches.
C17_AdminUrlAndIconGoTogether ==
  pc = "returned" =>
    \A k \in DOMAIN jails :
      /\ jails[k].admin_url = None <=> jails[k].icon_url = Some(ICON_FREEBSD)
      /\ (\A i \in DOMAIN Plugins :
            plugin_name(Plugins[i]) = k => plugin_portals(Plugins[i]).kind # "array")
           => (jails[k].admin_url = None /\ jails[k].icon_url = Some(ICON_FREEBSD))

\* C17 happens: list has returned a record with a plugin's admin URL and icon
\* and a record with neither.
C17_Witness ==
  /\ pc = "returned"
  /\ \E k1, k2 \in DOMAIN jails :
       /\ jails[k1].admin_url = None
       /\ jails[k2].admin_url # None
       /\ jails[k2].icon_url = Some(S_plex_icon)

\* C18: the poller holds no guard while it sleeps, so a handler at line 112
\* gets the read guard during the sleep.
C18_NoGuardHeldWhileSleeping ==
  pc = "sleep" => (~writer /\ can_read)

\* C18 happens: after a successful cycle the poller sleeps while a handler
\* holds a read guard and reads the new map.
C18_Witness ==
  /\ pc = "sleep"
  /\ arc_jails # EmptyMap
  /\ \E h \in Handlers : hpc[h] = "render" /\ h \in readers /\ view[h] # EmptyMap

====
